---- MODULE Spec2Model ----
(***************************************************************************)
(* Model of the reflective query dispatcher of IRIS-NLP.ipynb:             *)
(* iknow_query (argument binding, remote call, drain of the result        *)
(* global, kill) and iknow_macro (scan of the %IKPublic include file).     *)
(*                                                                         *)
(* Python strings are sequences of one-character strings, so that split,   *)
(* upper and slicing are computed as the code computes them.  Values that  *)
(* travel through the binder and the rows are wrapped ([t, v]) so that     *)
(* None and the empty string '' are distinct values.                       *)
(***************************************************************************)
EXTENDS Integers, Sequences, FiniteSets, TLC

(* ------------------------------ bounds --------------------------------- *)
MaxKey == 2          \* subscripts the remote procedure may populate: 0..MaxKey
MaxRows == 2         \* entries one remote call writes at most
MaxDispatch == 2     \* dispatches of one run of the sequential specification
MaxArgs == 3         \* positional arguments a caller supplies at most
MaxKw == 2
MaxLine == 3      \* greatest line number of an include file           \* keyword arguments a caller supplies at most

Procs == {1, 2}      \* client threads sharing the remote namespace
Keys == 0..MaxKey

(* ------------------------------ values --------------------------------- *)
None == [t |-> "none", v |-> <<>>]
Str(s) == [t |-> "str", v |-> s]
Sub(k) == [t |-> "int", v |-> k]

(* ------------------------- Python string helpers ----------------------- *)
UpperChar(c) ==
  CASE c = "a" -> "A" [] c = "b" -> "B" [] c = "o" -> "O" [] c = "u" -> "U"
    [] c = "t" -> "T" [] c = "l" -> "L" [] c = "r" -> "R" [] c = "x" -> "X"
    [] OTHER -> c

\* str.upper()
Upper(s) == [i \in 1..Len(s) |-> UpperChar(s[i])]

\* str.split(sep) for a one-character separator: always at least one piece
RECURSIVE Split(_, _)
Split(s, sep) ==
  IF \A i \in 1..Len(s) : s[i] # sep
  THEN <<s>>
  ELSE LET i == CHOOSE j \in 1..Len(s) :
                  s[j] = sep /\ \A k \in 1..(j - 1) : s[k] # sep
       IN  <<SubSeq(s, 1, i - 1)>> \o Split(SubSeq(s, i + 1, Len(s)), sep)

\* s[0:n]
Prefix(s, n) == SubSeq(s, 1, IF Len(s) < n THEN Len(s) ELSE n)

\* s[n:]
DropFirst(s, n) == SubSeq(s, n + 1, Len(s))

(* ---------------------- Python dict (insertion ordered) ---------------- *)
\* a dict is a sequence of <<key, value>> pairs with distinct keys
DictKeys(d) == {d[i][1] : i \in 1..Len(d)}

\* list(d.keys()): the keys in insertion order
KeySeq(d) == [i \in 1..Len(d) |-> d[i][1]]

DictGet(d, k) == d[CHOOSE i \in 1..Len(d) : d[i][1] = k][2]

\* d[k] = v : replaces in place, or appends
DictSet(d, k, v) ==
  IF k \in DictKeys(d)
  THEN [i \in 1..Len(d) |-> IF d[i][1] = k THEN <<k, v>> ELSE d[i]]
  ELSE Append(d, <<k, v>>)

\* { **a, **b }
RECURSIVE DictMerge(_, _)
DictMerge(a, b) ==
  IF Len(b) = 0 THEN a
  ELSE DictMerge(DictSet(a, b[1][1], b[1][2]), Tail(b))

(* ------------------------------ literals -------------------------------- *)
outGloKey == <<"o", "u", "t", "G", "l", "o">>          \* 'outGlo'
ResultGlo == <<"^", "r", "e", "s", "u", "l", "t">>     \* '^result'
OtherGlo == <<"^", "r", "2">>                          \* a caller-chosen name
GloNames == {ResultGlo, OtherGlo}
Sentinel == <<"\"", "\"">>                             \* the two characters ""
MacroPrefix == <<"$", "$", "$">>                       \* '$$$'

(* ------------------------ Native API: globals --------------------------- *)
\* a global is a function from its populated integer subscripts to values

\* irispy.nextSubscript(reversed, global, subscript): the next populated
\* subscript after the given one in collation order, None at the end
NextSubscript(direction, g, subscript) ==
  LET after == IF direction = 0
               THEN {k \in DOMAIN g : k > subscript.v}
               ELSE {k \in DOMAIN g : k < subscript.v}
  IN  IF after = {} THEN None
      ELSE IF direction = 0
           THEN Sub(CHOOSE k \in after : \A j \in after : k <= j)
           ELSE Sub(CHOOSE k \in after : \A j \in after : k >= j)

(* ----------------------------- iknow_macro ------------------------------ *)
\* the while loop of iknow_macro from the given position of the scan
RECURSIVE MacroScan(_, _, _)
MacroScan(table, macro, subscript) ==
  LET nxt == NextSubscript(0, table, subscript)
  IN  IF nxt = None THEN [err |-> "", val |-> None]
      ELSE LET raw_line == Split(table[nxt.v], " ")
           IN  IF Len(raw_line) > 1 /\ raw_line[2] = macro
               THEN IF Len(raw_line) >= 3
                    THEN [err |-> "", val |-> Str(raw_line[3])]
                    ELSE [err |-> "IndexError", val |-> None]
               ELSE MacroScan(table, macro, nxt)

iknow_macro(table, macro) ==
  MacroScan(table,
            IF Prefix(macro, 3) = MacroPrefix THEN DropFirst(macro, 3) ELSE macro,
            Sub(0))

(* --------------------------- argument binding --------------------------- *)
\* mutant of KwUpper: 'outGlo' is kept among the caller's keywords
RECURSIVE KwUpper_KeepOutGlo(_, _)
KwUpper_KeepOutGlo(kwargs, acc) ==
  IF Len(kwargs) = 0 THEN acc
  ELSE KwUpper_KeepOutGlo(Tail(kwargs), DictSet(acc, Upper(kwargs[1][1]), kwargs[1][2]))

\* kwupper: the caller's keywords upper-cased, without 'outGlo'
RECURSIVE KwUpper(_, _)
KwUpper(kwargs, acc) ==
  IF Len(kwargs) = 0 THEN acc
  ELSE IF kwargs[1][1] = outGloKey
       THEN KwUpper(Tail(kwargs), acc)
       ELSE KwUpper(Tail(kwargs), DictSet(acc, Upper(kwargs[1][1]), kwargs[1][2]))

\* mutant of DefaultValue: the check for the "" sentinel is missing
DefaultValue_NoSentinel(argument, table) ==
  LET default == argument[2]
  IN  IF Prefix(default, 3) = MacroPrefix
      THEN iknow_macro(table, default)
      ELSE [err |-> "", val |-> Str(argument[2])]

\* mutant of DefaultValue: the literal is taken from the wrong piece of the split
DefaultValue_WrongPiece(argument, table) ==
  LET default == argument[2]
  IN  IF default = Sentinel THEN [err |-> "", val |-> Str(<<>>)]
      ELSE IF Prefix(default, 3) = MacroPrefix
           THEN iknow_macro(table, default)
           ELSE [err |-> "", val |-> Str(argument[1])]

\* the value bound from the declared default: argument = [name[:type], default]
DefaultValue(argument, table) ==
  LET default == argument[2]
  IN  IF default = Sentinel THEN [err |-> "", val |-> Str(<<>>)]
      ELSE IF Prefix(default, 3) = MacroPrefix
           THEN iknow_macro(table, default)
           ELSE [err |-> "", val |-> Str(argument[2])]

\* mutant of BindOne: the positional argument is tried before the keyword
BindOne_PositionalFirst(argument0, i, args, kwupper, table) ==
  IF Len(argument0) = 0 THEN [err |-> "IndexError", val |-> None]
  ELSE
  LET stripped == IF argument0[1] = "&" \/ argument0[1] = "*"
                  THEN DropFirst(argument0, 1) ELSE argument0
      argument == Split(stripped, "=")
      argument_name == Upper(Split(argument[1], ":")[1])
  IN  IF Len(args) > i - 2
      THEN [err |-> "", val |-> args[i - 2 + 1]]
      ELSE IF argument_name \in DictKeys(kwupper)
      THEN [err |-> "", val |-> DictGet(kwupper, argument_name)]
      ELSE IF Len(argument) > 1
      THEN DefaultValue(argument, table)
      ELSE [err |-> "", val |-> None]

\* mutant of BindOne: a parameter without default is bound to ''
BindOne_AbsentAsEmpty(argument0, i, args, kwupper, table) ==
  IF Len(argument0) = 0 THEN [err |-> "IndexError", val |-> None]
  ELSE
  LET stripped == IF argument0[1] = "&" \/ argument0[1] = "*"
                  THEN DropFirst(argument0, 1) ELSE argument0
      argument == Split(stripped, "=")
      argument_name == Upper(Split(argument[1], ":")[1])
  IN  IF argument_name \in DictKeys(kwupper)
      THEN [err |-> "", val |-> DictGet(kwupper, argument_name)]
      ELSE IF Len(args) > i - 2
      THEN [err |-> "", val |-> args[i - 2 + 1]]
      ELSE IF Len(argument) > 1
      THEN DefaultValue(argument, table)
      ELSE [err |-> "", val |-> Str(<<>>)]

\* the value appended to full_args for the declaration at (0-based) index i
BindOne(argument0, i, args, kwupper, table) ==
  IF Len(argument0) = 0 THEN [err |-> "IndexError", val |-> None]
  ELSE
  LET stripped == IF argument0[1] = "&" \/ argument0[1] = "*"
                  THEN DropFirst(argument0, 1) ELSE argument0
      argument == Split(stripped, "=")
      argument_name == Upper(Split(argument[1], ":")[1])
  IN  IF argument_name \in DictKeys(kwupper)
      THEN [err |-> "", val |-> DictGet(kwupper, argument_name)]
      ELSE IF Len(args) > i - 2
      THEN [err |-> "", val |-> args[i - 2 + 1]]
      ELSE IF Len(argument) > 1
      THEN DefaultValue(argument, table)
      ELSE [err |-> "", val |-> None]

\* the for loop over the declarations, from 0-based index i on
RECURSIVE BindFrom(_, _, _, _, _, _)
BindFrom(raw, i, args, kwupper, table, acc) ==
  IF i >= Len(raw) THEN [err |-> "", args |-> acc]
  ELSE IF i < 2 THEN BindFrom(raw, i + 1, args, kwupper, table, acc)
  ELSE LET b == BindOne(raw[i + 1], i, args, kwupper, table)
       IN  IF b.err # "" THEN [err |-> b.err, args |-> acc]
           ELSE BindFrom(raw, i + 1, args, kwupper, table, Append(acc, b.val))

\* full_args of iknow_query for a FormalSpec, *args and **kwargs
BindArgs(formalSpec, args, kwargs, table) ==
  BindFrom(Split(formalSpec, ","), 0, args, KwUpper(kwargs, <<>>), table, <<>>)

(* ------------------------- result rows (drain) -------------------------- *)
\* the packed $list of one entry: ok = FALSE when the bytes are not a $list.
\* The entry at subscript k is a complete row of two fields, a short row of
\* one field, or bytes that do not decode.
Full(k) == [ok |-> TRUE, fields |-> <<Str(<<"u">>), Sub(k)>>]
Short(k) == [ok |-> TRUE, fields |-> <<Sub(k)>>]
Corrupt == [ok |-> FALSE, fields |-> <<>>]

\* the for loop building one row: row[col] = raw_row.get(i+1)
RECURSIVE BuildRow(_, _, _, _)
BuildRow(return_cols, fields, i, row) ==
  IF i > Len(return_cols) THEN row
  ELSE BuildRow(return_cols, fields, i + 1,
                DictSet(row, return_cols[i],
                        IF i <= Len(fields) THEN fields[i] ELSE None))

\* mutant of AppendRow: the row is put in front
AppendRow_Prepend(rows, row) == <<row>> \o rows

\* result.append(row)
AppendRow(rows, row) == Append(rows, row)

\* return_cols / return_types of the 'name:type,...' default of the RT parameter
\* mutant of ReturnCols: the type of each column is taken for its name
ReturnCols_Types(rt) ==
  LET raw == Split(rt, ",") IN [i \in 1..Len(raw) |-> Split(raw[i], ":")[2]]

ReturnCols(rt) ==
  LET raw == Split(rt, ",") IN [i \in 1..Len(raw) |-> Split(raw[i], ":")[1]]

ReturnTypesOk(rt) ==
  LET raw == Split(rt, ",") IN \A i \in 1..Len(raw) : Len(Split(raw[i], ":")) > 1

(* ---------------------- the remote procedure's output ------------------- *)
\* what a remote call leaves in the output global: its entries are set on top
\* of whatever the global already holds
WriteGlobal(old, new) ==
  [k \in (DOMAIN old) \cup (DOMAIN new) |-> IF k \in DOMAIN new THEN new[k] ELSE old[k]]

EmptyGlobal == <<>>

\* the entries of one call: complete rows, at most one of them replaced by
\* a short or an undecodable entry
RowSets ==
  UNION { {[k \in K |-> Full(k)]}
            \cup {[k \in K |-> IF k = b THEN Short(k) ELSE Full(k)] : b \in K}
            \cup {[k \in K |-> IF k = b THEN Corrupt ELSE Full(k)] : b \in K}
          : K \in {S \in SUBSET Keys : Cardinality(S) <= MaxRows} }

\* a reply: the entries the remote procedure writes and whether it then fails
Replies == [fail : BOOLEAN, rows : RowSets]

(* ------------------------------- metadata ------------------------------- *)
MethodNames == {"GetTop", "NoSuch"}

Lead == <<"&", "r", ",", "d">>                     \* '&r,d'
GetTopRT == <<"e", ":", "S", ",", "f", ":", "I">>  \* 'e:S,f:I'
GetTopSpec == Lead \o <<",", "a", ":", "T", "=", "1">>   \* '&r,d,a:T=1'

\* lines of the include file: '#', '# M 5', '# M 7'
IncludeFile ==
  (1 :> <<"#">>) @@ (2 :> <<"#", " ", "M", " ", "5">>) @@ (3 :> <<"#", " ", "M", " ", "7">>)

(* -------------------------------- state --------------------------------- *)
VARIABLES
  ParameterDefinition,  \* method -> Default of its RT parameter, None if absent
  CompiledMethod,       \* method -> FormalSpec, None if absent
  rINC,                 \* the include file ^rINC("%IKPublic",0)
  glo,                  \* global name -> its entries
  last,                 \* global name -> how the last dispatch using it ended
  ndisp,                \* dispatches started
  pc,                   \* position of each client in iknow_query
  inp,                  \* api/method, domain_id, *args, **kwargs of the call
  reply,                \* what the remote procedure does for this call
  prev,                 \* last[outGlo] when the call was entered
  return_cols,
  full_args,
  issued,               \* remote calls issued by this dispatch
  subscript,
  visited,              \* subscripts returned by nextSubscript, in order
  result,
  err,                  \* exception the dispatch raised, "" if none
  mac                   \* a call of iknow_macro on its own: position and locals

meta == <<ParameterDefinition, CompiledMethod, rINC, mac>>
shared == <<glo, last, ndisp>>
locals == <<pc, inp, reply, prev, return_cols, full_args, issued, subscript,
            visited, result, err>>
vars == <<meta, shared, locals>>

outGlo(p) == DictGet(inp[p].kwargs, outGloKey).v

Running(p) == pc[p] \notin {"idle", "returned", "raised"}

\* entries the remote call of the dispatch wrote, 0 before the call
Wrote(p) == IF issued[p] = <<>> THEN 0 ELSE Cardinality(DOMAIN reply[p].rows)

\* the dispatch ends by raising e, its remote call having written n entries
Raise(p, e, n) ==
  /\ pc' = [pc EXCEPT ![p] = "raised"]
  /\ err' = [err EXCEPT ![p] = e]
  /\ last' = [last EXCEPT ![outGlo(p)] = [end |-> "raised", wrote |-> n]]

(* ------------------------------- inputs --------------------------------- *)
X == Str(<<"x">>)
Y == Str(<<"y">>)
Z == Str(<<"z">>)

Call(m, a, k, r) == [method |-> m, domain_id |-> 1, args |-> a, kwargs |-> k, reply |-> r]

\* calls of the notebook: a method with or without metadata, on the default
\* global; a call on a method without metadata never reaches the remote call
SeqCalls ==
  {Call("GetTop", <<>>, <<>>, r) : r \in Replies}
    \cup {Call("NoSuch", <<>>, <<>>, [fail |-> FALSE, rows |-> EmptyGlobal])}

(* ------------------------------- actions -------------------------------- *)
\* def iknow_query(...): kwargs = { 'outGlo': '^result', **kwargs }
Enter(p, c) ==
  LET kwargs == DictMerge(<<<<outGloKey, Str(ResultGlo)>>>>, c.kwargs)
      g == DictGet(kwargs, outGloKey).v
  IN  /\ pc' = [pc EXCEPT ![p] = "entered"]
      /\ inp' = [inp EXCEPT ![p] = [method |-> c.method, domain_id |-> c.domain_id,
                                   args |-> c.args, kwargs |-> kwargs]]
      /\ reply' = [reply EXCEPT ![p] = c.reply]
      /\ prev' = [prev EXCEPT ![p] = last[g]]
      /\ return_cols' = [return_cols EXCEPT ![p] = <<>>]
      /\ full_args' = [full_args EXCEPT ![p] = <<>>]
      /\ issued' = [issued EXCEPT ![p] = <<>>]
      /\ subscript' = [subscript EXCEPT ![p] = Sub(0)]
      /\ visited' = [visited EXCEPT ![p] = <<>>]
      /\ result' = [result EXCEPT ![p] = <<>>]
      /\ err' = [err EXCEPT ![p] = ""]

\* one call of iknow_query by the notebook, after the previous one ended
Dispatch(p) ==
  /\ ndisp < MaxDispatch
  /\ \A q \in Procs : ~Running(q)
  /\ \E c \in SeqCalls : Enter(p, c)
  /\ ndisp' = ndisp + 1
  /\ UNCHANGED <<meta, glo, last>>

\* mutant of Resolve: a method without RT parameter is given no columns
Resolve_MissingAsEmpty(p) ==
  /\ pc[p] = "entered"
  /\ LET proxy == ParameterDefinition[inp[p].method]
     IN  IF proxy # None /\ ~ReturnTypesOk(proxy.v)
         THEN Raise(p, "IndexError", 0) /\ UNCHANGED return_cols
         ELSE /\ return_cols' = [return_cols EXCEPT ![p] =
                                   IF proxy = None THEN <<>> ELSE ReturnCols(proxy.v)]
              /\ pc' = [pc EXCEPT ![p] = "resolved"]
              /\ UNCHANGED <<err, last>>
  /\ UNCHANGED <<meta, glo, ndisp, inp, reply, prev, full_args, issued,
                 subscript, visited, result>>

\* figure out result columns
Resolve(p) ==
  /\ pc[p] = "entered"
  /\ LET proxy == ParameterDefinition[inp[p].method]
     IN  IF proxy = None
         THEN Raise(p, "SchemaNotFound", 0) /\ UNCHANGED return_cols
         ELSE IF ~ReturnTypesOk(proxy.v)
         THEN Raise(p, "IndexError", 0) /\ UNCHANGED return_cols
         ELSE /\ return_cols' = [return_cols EXCEPT ![p] = ReturnCols(proxy.v)]
              /\ pc' = [pc EXCEPT ![p] = "resolved"]
              /\ UNCHANGED <<err, last>>
  /\ UNCHANGED <<meta, glo, ndisp, inp, reply, prev, full_args, issued,
                 subscript, visited, result>>

\* parse method spec and build the positional argument list
Bind(p) ==
  /\ pc[p] = "resolved"
  /\ LET proxy == CompiledMethod[inp[p].method]
     IN  IF proxy = None
         THEN Raise(p, "SchemaNotFound", 0) /\ UNCHANGED full_args
         ELSE LET b == BindArgs(proxy.v, inp[p].args, inp[p].kwargs, rINC)
              IN  IF b.err # ""
                  THEN Raise(p, b.err, 0) /\ UNCHANGED full_args
                  ELSE /\ full_args' = [full_args EXCEPT ![p] = b.args]
                       /\ pc' = [pc EXCEPT ![p] = "bound"]
                       /\ UNCHANGED <<err, last>>
  /\ UNCHANGED <<meta, glo, ndisp, inp, reply, prev, return_cols, issued,
                 subscript, visited, result>>

\* irispy.classMethodVoid(api, method, outGlo, domain_id, *full_args)
Invoke(p) ==
  /\ pc[p] = "bound"
  /\ issued' = [issued EXCEPT ![p] =
                  Append(@, [method |-> inp[p].method,
                             args |-> <<Str(outGlo(p)), inp[p].domain_id>> \o full_args[p]])]
  /\ glo' = [glo EXCEPT ![outGlo(p)] = WriteGlobal(@, reply[p].rows)]
  /\ IF reply[p].fail
     THEN Raise(p, "RemoteCallFailed", Cardinality(DOMAIN reply[p].rows))
     ELSE pc' = [pc EXCEPT ![p] = "scan"] /\ UNCHANGED <<err, last>>
  /\ UNCHANGED <<meta, ndisp, inp, reply, prev, return_cols, full_args,
                 subscript, visited, result>>

\* mutant of NextKey: the end of the subscripts is taken for an error
NextKey_NoneIsError(p) ==
  /\ pc[p] = "scan"
  /\ LET nxt == NextSubscript(0, glo[outGlo(p)], subscript[p])
     IN  /\ subscript' = [subscript EXCEPT ![p] = nxt]
         /\ IF nxt = None
            THEN Raise(p, "StopIteration", Wrote(p)) /\ UNCHANGED visited
            ELSE /\ pc' = [pc EXCEPT ![p] = "read"]
                 /\ visited' = [visited EXCEPT ![p] = Append(@, nxt.v)]
                 /\ UNCHANGED <<err, last>>
  /\ UNCHANGED <<meta, glo, ndisp, inp, reply, prev, return_cols, full_args,
                 issued, result>>

\* subscript = irispy.nextSubscript(direction, outGlo, subscript)
NextKey(p) ==
  /\ pc[p] = "scan"
  /\ LET nxt == NextSubscript(0, glo[outGlo(p)], subscript[p])
     IN  /\ subscript' = [subscript EXCEPT ![p] = nxt]
         /\ IF nxt = None
            THEN pc' = [pc EXCEPT ![p] = "kill"] /\ UNCHANGED visited
            ELSE /\ pc' = [pc EXCEPT ![p] = "read"]
                 /\ visited' = [visited EXCEPT ![p] = Append(@, nxt.v)]
  /\ UNCHANGED <<meta, shared, inp, reply, prev, return_cols, full_args,
                 issued, result, err>>

\* raw_row = iris.IRISList(irispy.getBytes(outGlo,subscript)); build the row
ReadRow(p) ==
  /\ pc[p] = "read"
  /\ LET g == glo[outGlo(p)]
         raw_row == IF subscript[p].v \in DOMAIN g THEN g[subscript[p].v]
                    ELSE [ok |-> TRUE, fields |-> <<>>]
     IN  IF ~raw_row.ok
         THEN Raise(p, "DecodeError", Wrote(p)) /\ UNCHANGED result
         ELSE \E outOfRange \in {"None", "IndexError"} :
                IF Len(raw_row.fields) < Len(return_cols[p]) /\ outOfRange = "IndexError"
                THEN Raise(p, "IndexError", Wrote(p)) /\ UNCHANGED result
                ELSE /\ result' = [result EXCEPT ![p] =
                                     AppendRow(@, BuildRow(return_cols[p], raw_row.fields, 1, <<>>))]
                     /\ pc' = [pc EXCEPT ![p] = "scan"]
                     /\ UNCHANGED <<err, last>>
  /\ UNCHANGED <<meta, glo, ndisp, inp, reply, prev, return_cols, full_args,
                 issued, subscript, visited>>

\* mutant of Kill: the function returns without killing the global
Kill_NoPurge(p) ==
  /\ pc[p] = "kill"
  /\ pc' = [pc EXCEPT ![p] = "returned"]
  /\ last' = [last EXCEPT ![outGlo(p)] = [end |-> "returned", wrote |-> Wrote(p)]]
  /\ UNCHANGED <<meta, glo, ndisp, inp, reply, prev, return_cols, full_args,
                 issued, subscript, visited, result, err>>

\* mutant of Kill: the default global is killed, whatever outGlo names
Kill_DefaultName(p) ==
  /\ pc[p] = "kill"
  /\ glo' = [glo EXCEPT ![ResultGlo] = EmptyGlobal]
  /\ pc' = [pc EXCEPT ![p] = "returned"]
  /\ last' = [last EXCEPT ![outGlo(p)] = [end |-> "returned", wrote |-> Wrote(p)]]
  /\ UNCHANGED <<meta, ndisp, inp, reply, prev, return_cols, full_args,
                 issued, subscript, visited, result, err>>

\* irispy.kill(outGlo); return result
Kill(p) ==
  /\ pc[p] = "kill"
  /\ glo' = [glo EXCEPT ![outGlo(p)] = EmptyGlobal]
  /\ pc' = [pc EXCEPT ![p] = "returned"]
  /\ last' = [last EXCEPT ![outGlo(p)] = [end |-> "returned", wrote |-> Wrote(p)]]
  /\ UNCHANGED <<meta, ndisp, inp, reply, prev, return_cols, full_args,
                 issued, subscript, visited, result, err>>

\* iknow_macro, statement by statement
\* if macro[0:3] == '$$$': macro = macro[3:]; subscript = 0; value = None
MacroEnter ==
  /\ mac.pc = "called"
  /\ mac' = [mac EXCEPT !.pc = "loop",
                        !.macro = IF Prefix(@, 3) = MacroPrefix THEN DropFirst(@, 3) ELSE @,
                        !.subscript = Sub(0),
                        !.value = None]
  /\ UNCHANGED <<ParameterDefinition, CompiledMethod, rINC, shared, locals>>

\* mutant of MacroLoop: a matching line does not end the loop
MacroLoop_NoBreak ==
  /\ mac.pc = "loop"
  /\ LET nxt == NextSubscript(0, rINC, mac.subscript)
     IN  IF nxt = None
         THEN mac' = [mac EXCEPT !.pc = "return", !.subscript = nxt]
         ELSE LET raw_line == Split(rINC[nxt.v], " ")
              IN  IF Len(raw_line) > 1 /\ raw_line[2] = mac.macro
                  THEN IF Len(raw_line) >= 3
                       THEN mac' = [mac EXCEPT !.subscript = nxt,
                                               !.value = Str(raw_line[3])]
                       ELSE mac' = [mac EXCEPT !.pc = "raised", !.subscript = nxt,
                                               !.err = "IndexError"]
                  ELSE mac' = [mac EXCEPT !.subscript = nxt]
  /\ UNCHANGED <<ParameterDefinition, CompiledMethod, rINC, shared, locals>>

\* one turn of the while loop
MacroLoop ==
  /\ mac.pc = "loop"
  /\ LET nxt == NextSubscript(0, rINC, mac.subscript)
     IN  IF nxt = None
         THEN mac' = [mac EXCEPT !.pc = "return", !.subscript = nxt]
         ELSE LET raw_line == Split(rINC[nxt.v], " ")
              IN  IF Len(raw_line) > 1 /\ raw_line[2] = mac.macro
                  THEN IF Len(raw_line) >= 3
                       THEN mac' = [mac EXCEPT !.pc = "return", !.subscript = nxt,
                                               !.value = Str(raw_line[3])]
                       ELSE mac' = [mac EXCEPT !.pc = "raised", !.subscript = nxt,
                                               !.err = "IndexError"]
                  ELSE mac' = [mac EXCEPT !.subscript = nxt]
  /\ UNCHANGED <<ParameterDefinition, CompiledMethod, rINC, shared, locals>>

\* return value
MacroReturn ==
  /\ mac.pc = "return"
  /\ mac' = [mac EXCEPT !.pc = "returned"]
  /\ UNCHANGED <<ParameterDefinition, CompiledMethod, rINC, shared, locals>>

(* ---------------------------- specifications ---------------------------- *)
IdleCall == [method |-> "GetTop", domain_id |-> 1, args |-> <<>>,
             kwargs |-> <<<<outGloKey, Str(ResultGlo)>>>>]
IdleReply == [fail |-> FALSE, rows |-> EmptyGlobal]
NoDispatch == [end |-> "none", wrote |-> 0]

\* no call of iknow_macro on its own
MacIdle == [pc |-> "idle", arg |-> <<>>, macro |-> <<>>, subscript |-> Sub(0), value |-> None, err |-> ""]

\* no call in progress in any client
InitLocals ==
  /\ prev = [p \in Procs |-> NoDispatch]
  /\ return_cols = [p \in Procs |-> <<>>]
  /\ full_args = [p \in Procs |-> <<>>]
  /\ issued = [p \in Procs |-> <<>>]
  /\ subscript = [p \in Procs |-> Sub(0)]
  /\ visited = [p \in Procs |-> <<>>]
  /\ result = [p \in Procs |-> <<>>]
  /\ err = [p \in Procs |-> ""]

\* nothing dispatched yet: empty globals
InitIdle ==
  /\ glo = [g \in GloNames |-> EmptyGlobal]
  /\ last = [g \in GloNames |-> NoDispatch]
  /\ InitLocals

InitShared ==
  /\ ParameterDefinition = [m \in MethodNames |-> IF m = "GetTop" THEN Str(GetTopRT) ELSE None]
  /\ rINC = IncludeFile
  /\ mac = MacIdle
  /\ reply = [p \in Procs |-> IdleReply]
  /\ InitIdle

\* the notebook: one client calling iknow_query again and again
Init ==
  /\ InitShared
  /\ CompiledMethod = [m \in MethodNames |-> IF m = "GetTop" THEN Str(GetTopSpec) ELSE None]
  /\ ndisp = 0
  /\ pc = [p \in Procs |-> "idle"]
  /\ inp = [p \in Procs |-> IdleCall]

Step(p) == Resolve(p) \/ Bind(p) \/ Invoke(p) \/ NextKey(p) \/ ReadRow(p) \/ Kill(p)

Next == Dispatch(1) \/ Step(1)

Spec == Init /\ [][Next]_vars

(* ------------------ claims on the result global (Spec) ------------------ *)
\* subscripts of a set in ascending order
RECURSIVE Ascending(_)
Ascending(K) ==
  IF K = {} THEN <<>>
  ELSE LET m == CHOOSE k \in K : \A j \in K : k <= j
       IN  <<m>> \o Ascending(K \ {m})

\* the rows a drain of exactly these entries yields for the columns cols:
\* one row per entry after the start subscript 0, in ascending order
RowsOf(entries, cols) ==
  LET ks == Ascending({k \in DOMAIN entries : k > 0})
  IN  [j \in 1..Len(ks) |-> BuildRow(cols, entries[ks[j]].fields, 1, <<>>)]

\* C1: of two sequential dispatches on one global name, the first returning,
\* the global is empty when a dispatch returns and the rows the second
\* returns are exactly the rows of the entries its own remote call wrote
\* (the entries the scan from subscript 0 reaches); nothing the first call
\* wrote is among them.
C1_SecondUnaffected ==
  \A p \in Procs :
    pc[p] = "returned" =>
      /\ glo[outGlo(p)] = EmptyGlobal
      /\ prev[p].end = "returned" =>
           /\ result[p] = RowsOf(reply[p].rows, return_cols[p])
           /\ \A j \in 1..Len(visited[p]) : visited[p][j] \in DOMAIN reply[p].rows

\* a second dispatch returned rows after a first one that had written entries
\* to the same default global and returned
C1_Witness ==
  /\ pc[1] = "returned" /\ ndisp = 2
  /\ outGlo(1) = ResultGlo
  /\ prev[1].end = "returned" /\ prev[1].wrote = 2
  /\ Len(result[1]) = 1 /\ visited[1] = <<2>>

\* C2: when the remote call fails, the dispatch raises RemoteCallFailed with
\* the result global already purged.
C2_PurgedOnCallFailure ==
  \A p \in Procs :
    (pc[p] = "raised" /\ err[p] = "RemoteCallFailed") => glo[outGlo(p)] = EmptyGlobal

\* C3: every dispatch that reached the drain ends, by return or by raise,
\* with its result global purged.
C3_PurgedOnEveryExit ==
  \A p \in Procs :
    (pc[p] \in {"returned", "raised"} /\ issued[p] # <<>> /\ err[p] # "RemoteCallFailed")
      => glo[outGlo(p)] = EmptyGlobal

\* C10: the drain visits the subscripts in strictly ascending order and row k
\* of the result is built from the entry at the k-th visited subscript.
C10_AscendingDrain ==
  \A p \in Procs :
    /\ \A j, k \in 1..Len(visited[p]) : j < k => visited[p][j] < visited[p][k]
    /\ pc[p] \in {"scan", "read", "kill"} =>
         /\ Len(result[p]) = (IF pc[p] = "read" THEN Len(visited[p]) - 1 ELSE Len(visited[p]))
         /\ \A j \in 1..Len(result[p]) :
              result[p][j] =
                BuildRow(return_cols[p], glo[outGlo(p)][visited[p][j]].fields, 1, <<>>)

\* the scan ended after two entries with different rows
C10_Witness ==
  /\ pc[1] = "kill"
  /\ Len(visited[1]) = 2 /\ Len(result[1]) = 2
  /\ result[1][1] # result[1][2]

(* ------------------- the binder on drawn inputs (SpecBind) -------------- *)
\* a declaration of FormalSpec: [&|*]name[:type][=default]
Decl(mk, n, ty, hd, df) == [marker |-> mk, name |-> n, type |-> ty, hasDefault |-> hd, default |-> df]

Render(d) ==
  d.marker \o d.name
    \o (IF d.type = <<>> THEN <<>> ELSE <<":">> \o d.type)
    \o (IF d.hasDefault THEN <<"=">> \o d.default ELSE <<>>)

DeclsA ==
  { Decl(<<>>, <<"a">>, <<>>, FALSE, <<>>),                    \* a
    Decl(<<>>, <<"a">>, <<"T">>, TRUE, <<"1">>),               \* a:T=1
    Decl(<<"&">>, <<"a">>, <<>>, TRUE, Sentinel),              \* &a=""
    Decl(<<>>, <<"a">>, <<>>, TRUE, MacroPrefix \o <<"M">>),   \* a=$$$M
    Decl(<<>>, <<"a">>, <<>>, TRUE, MacroPrefix \o <<"N">>) }  \* a=$$$N

DeclsB ==
  { Decl(<<>>, <<"b">>, <<>>, FALSE, <<>>),                    \* b
    Decl(<<"*">>, <<"b">>, <<>>, TRUE, <<"2">>),               \* *b=2
    Decl(<<>>, <<"b">>, <<"T">>, TRUE, Sentinel),              \* b:T=""
    Decl(<<>>, outGloKey, <<>>, FALSE, <<>>) }                 \* outGlo

\* the declarations after the two leading ones
DeclLists == {<<>>} \cup {<<a>> : a \in DeclsA} \cup {<<a, b>> : a \in DeclsA, b \in DeclsB}

RECURSIVE RenderAll(_)
RenderAll(ds) == IF Len(ds) = 0 THEN <<>> ELSE <<",">> \o Render(ds[1]) \o RenderAll(Tail(ds))

FormalSpecOf(ds) == Lead \o RenderAll(ds)

FormalSpecs == {FormalSpecOf(ds) : ds \in DeclLists}

ArgValues == {X, Y}
ArgLists == UNION {[1..n -> ArgValues] : n \in 0..MaxArgs}

KwPairs ==
  { <<<<"a">>, Z>>, <<<<"A">>, Y>>, <<<<"B">>, Z>>, <<outGloKey, Str(OtherGlo)>> }

\* **kwargs: pairs with distinct keywords, in call-site order
KwLists ==
  {k \in UNION {[1..n -> KwPairs] : n \in 0..MaxKw} :
     \A i, j \in 1..Len(k) : i # j => k[i][1] # k[j][1]}

\* one call in progress, just entered, on drawn metadata and arguments
InitBind ==
  /\ InitShared
  /\ \E fs \in FormalSpecs :
       CompiledMethod = [m \in MethodNames |-> IF m = "GetTop" THEN Str(fs) ELSE None]
  /\ ndisp = 1
  /\ pc = [p \in Procs |-> IF p = 1 THEN "entered" ELSE "idle"]
  /\ \E a \in ArgLists, k \in KwLists :
       inp = [p \in Procs |->
                IF p = 1
                THEN [method |-> "GetTop", domain_id |-> 1, args |-> a,
                      kwargs |-> DictMerge(<<<<outGloKey, Str(ResultGlo)>>>>, k)]
                ELSE IdleCall]

NextBind == Resolve(1) \/ Bind(1) \/ Invoke(1)

SpecBind == InitBind /\ [][NextBind]_vars

(* --------------------- claims on the binder (SpecBind) ------------------ *)
\* the declarations behind the FormalSpec of the method being called
Declared(p) ==
  CHOOSE ds \in DeclLists : FormalSpecOf(ds) = CompiledMethod[inp[p].method].v

\* positions in **kwargs of the caller's keywords naming declaration i
Matching(p, i) ==
  {j \in 1..Len(inp[p].kwargs) :
     /\ inp[p].kwargs[j][1] # outGloKey
     /\ Upper(inp[p].kwargs[j][1]) = Upper(Declared(p)[i].name)}

\* the binding loop has run to its end
BindDone(p) == pc[p] \in {"bound", "scan", "read", "kill", "returned"}

\* declaration i gets neither a keyword nor a positional argument
FallsThrough(p, i) == Matching(p, i) = {} /\ Len(inp[p].args) < i

Symbolic(d) == d.hasDefault /\ Prefix(d.default, 3) = MacroPrefix
IsSentinel(d) == d.hasDefault /\ d.default = Sentinel

\* C4: a declared parameter named by a keyword argument, whatever the case of
\* the keyword, is bound to the keyword's value, also when a positional
\* argument exists at its index.
C4_NamedOverridesPositional ==
  BindDone(1) =>
    \A i \in 1..Len(Declared(1)) :
      Matching(1, i) # {} =>
        /\ Len(full_args[1]) >= i
        /\ \E j \in Matching(1, i) : full_args[1][i] = inp[1].kwargs[j][2]

\* a keyword written in another case than the declaration won over a
\* different positional argument at the same index
C4_Witness ==
  /\ BindDone(1)
  /\ \E i \in 1..Len(Declared(1)) :
       /\ Cardinality(Matching(1, i)) = 1
       /\ \E j \in Matching(1, i) :
            /\ inp[1].kwargs[j][1] # Declared(1)[i].name
            /\ full_args[1][i] = inp[1].kwargs[j][2]
       /\ Len(inp[1].args) >= i
       /\ inp[1].args[i] # full_args[1][i]

\* C5: more positional arguments than declared parameters after the leading
\* two make the dispatch fail with TooManyArguments before any remote call.
C5_TooManyArguments ==
  Len(inp[1].args) > Len(Declared(1)) =>
    /\ issued[1] = <<>>
    /\ pc[1] \notin {"scan", "read", "kill", "returned"}
    /\ pc[1] = "raised" => err[1] = "TooManyArguments"

\* C6: a parameter falling through to a symbolic default that iknow_macro
\* does not resolve makes the dispatch fail with UnresolvedDefault; None is
\* not bound and no remote call is issued.
C6_UnresolvedDefault ==
  \A i \in 1..Len(Declared(1)) :
    ( /\ pc[1] \notin {"idle", "entered", "resolved"}
      /\ FallsThrough(1, i)
      /\ Symbolic(Declared(1)[i])
      /\ iknow_macro(rINC, Declared(1)[i].default).val = None )
    => (pc[1] = "raised" /\ err[1] = "UnresolvedDefault" /\ issued[1] = <<>>)

\* C7: a parameter without matching keyword is bound to the positional
\* argument at its index when there is one, else to its plain default
\* literal, else, having no default, to None (which is not '').
C7_PositionalThenDefaultThenNone ==
  BindDone(1) =>
    \A i \in 1..Len(Declared(1)) :
      Matching(1, i) = {} =>
        LET d == Declared(1)[i] IN
        /\ Len(full_args[1]) >= i
        /\ Len(inp[1].args) >= i => full_args[1][i] = inp[1].args[i]
        /\ (Len(inp[1].args) < i /\ d.hasDefault /\ ~IsSentinel(d) /\ ~Symbolic(d))
             => full_args[1][i] = Str(d.default)
        /\ (Len(inp[1].args) < i /\ ~d.hasDefault)
             => (full_args[1][i] = None /\ full_args[1][i] # Str(<<>>))

\* the first parameter took the positional argument, the second, declared
\* without default, is None
C7_Witness ==
  /\ BindDone(1)
  /\ Len(Declared(1)) = 2 /\ Len(inp[1].args) = 1
  /\ Matching(1, 1) = {} /\ Matching(1, 2) = {}
  /\ ~Declared(1)[2].hasDefault
  /\ full_args[1] = <<inp[1].args[1], None>>

\* C8: a parameter bound from a declared default that is the sentinel "" is
\* bound to the empty string, not to None.
C8_SentinelBindsEmpty ==
  BindDone(1) =>
    \A i \in 1..Len(Declared(1)) :
      (FallsThrough(1, i) /\ IsSentinel(Declared(1)[i]))
        => (full_args[1][i] = Str(<<>>) /\ full_args[1][i] # None)

\* a parameter declared with the sentinel fell through to it
C8_Witness ==
  /\ BindDone(1)
  /\ \E i \in 1..Len(Declared(1)) :
       FallsThrough(1, i) /\ IsSentinel(Declared(1)[i]) /\ full_args[1][i] = Str(<<>>)

\* full_args of the same call with declaration i passed by keyword, resp.
\* appended as the next positional argument, with the value v
ExplicitByName(p, i, v) ==
  BindArgs(CompiledMethod[inp[p].method].v, inp[p].args,
           Append(inp[p].kwargs, <<Declared(p)[i].name, v>>), rINC).args

ExplicitByPosition(p, i, v) ==
  BindArgs(CompiledMethod[inp[p].method].v, Append(inp[p].args, v),
           inp[p].kwargs, rINC).args

RoundTrip(p, i) ==
  LET v == Str(Declared(p)[i].default) IN
  /\ ExplicitByName(p, i, v) = full_args[p]
  /\ Len(inp[p].args) = i - 1 => ExplicitByPosition(p, i, v) = full_args[p]

\* C9 as stated: for every parameter declaring a default, passing the default
\* literal explicitly gives the vector that falling through gives.
C9_RoundTripAnyDefault ==
  BindDone(1) =>
    \A i \in 1..Len(Declared(1)) :
      (FallsThrough(1, i) /\ Declared(1)[i].hasDefault) => RoundTrip(1, i)

\* C9 amended: for every parameter declaring a default that is neither the
\* sentinel "" nor symbolic, passing the default literal explicitly, by
\* keyword or as the next positional argument, gives the vector that
\* falling through to the default gives.
C9_RoundTripPlainDefault ==
  BindDone(1) =>
    \A i \in 1..Len(Declared(1)) :
      ( /\ FallsThrough(1, i) /\ Declared(1)[i].hasDefault
        /\ ~IsSentinel(Declared(1)[i]) /\ ~Symbolic(Declared(1)[i]) )
      => RoundTrip(1, i)

\* a parameter fell through to a plain default literal that can also be
\* passed as the next positional argument
C9_Witness ==
  /\ BindDone(1)
  /\ \E i \in 1..Len(Declared(1)) :
       /\ FallsThrough(1, i) /\ Declared(1)[i].hasDefault
       /\ ~IsSentinel(Declared(1)[i]) /\ ~Symbolic(Declared(1)[i])
       /\ Len(inp[1].args) = i - 1
       /\ full_args[1][i] = Str(Declared(1)[i].default)


\* C11: the drain of a global holding no entries goes straight from the first
\* nextSubscript to the kill and returns no rows, without raising, and the
\* global is empty afterwards; so it is after a previous drain purged it.
C11_EmptyDrain ==
  [][\A p \in Procs :
       /\ (pc[p] = "scan" /\ glo[outGlo(p)] = EmptyGlobal)
            => (pc'[p] = "kill" /\ result'[p] = <<>> /\ err'[p] = ""
                /\ glo'[outGlo(p)] = EmptyGlobal)
       /\ (pc[p] = "kill" /\ glo[outGlo(p)] = EmptyGlobal)
            => (pc'[p] = "returned" /\ result'[p] = <<>> /\ err'[p] = ""
                /\ glo'[outGlo(p)] = EmptyGlobal)]_vars

\* a second dispatch whose call wrote nothing returned no rows from the
\* global that the drain of the first, which had written entries, had purged
C11_Witness ==
  /\ pc[1] = "returned" /\ ndisp = 2
  /\ prev[1].end = "returned" /\ prev[1].wrote > 0
  /\ issued[1] # <<>> /\ reply[1].rows = EmptyGlobal
  /\ result[1] = <<>> /\ err[1] = "" /\ glo[outGlo(1)] = EmptyGlobal

(* ------------- result schemas of any shape (SpecRows) ------------------- *)
\* a result column: its name and its type
Col(n, ty) == [name |-> n, type |-> ty]

ColE == Col(<<"e">>, <<"S">>)
ColF == Col(<<"f">>, <<"I">>)
ColG == Col(<<"g">>, <<"I">>)

\* RT defaults of one, two and three columns, in either order
ColLists == { <<ColE>>, <<ColE, ColF>>, <<ColF, ColE>>, <<ColE, ColF, ColG>> }

\* 'name:type,name:type,...'
RECURSIVE RTOf(_)
RTOf(cols) ==
  IF cols = <<>> THEN <<>>
  ELSE cols[1].name \o <<":">> \o cols[1].type
         \o (IF Len(cols) > 1 THEN <<",">> \o RTOf(Tail(cols)) ELSE <<>>)

\* an RT default one of whose columns has no type: 'e,f:I'
UntypedRT == <<"e", ",", "f", ":", "I">>

ReturnTypes == {RTOf(cols) : cols \in ColLists} \cup {UntypedRT}

\* one call of GetTop on the default global, for every RT default and reply
InitRows ==
  /\ \E rt \in ReturnTypes :
       ParameterDefinition = [m \in MethodNames |-> IF m = "GetTop" THEN Str(rt) ELSE None]
  /\ CompiledMethod = [m \in MethodNames |-> IF m = "GetTop" THEN Str(GetTopSpec) ELSE None]
  /\ rINC = IncludeFile
  /\ mac = MacIdle
  /\ InitIdle
  /\ \E r \in Replies : reply = [p \in Procs |-> IF p = 1 THEN r ELSE IdleReply]
  /\ ndisp = 1
  /\ pc = [p \in Procs |-> IF p = 1 THEN "entered" ELSE "idle"]
  /\ inp = [p \in Procs |-> IdleCall]

NextRows == Step(1)

SpecRows == InitRows /\ [][NextRows]_vars

\* the declared columns of the method the client called
Columns(p) ==
  CHOOSE cols \in ColLists : RTOf(cols) = ParameterDefinition[inp[p].method].v

\* C12: every row of the result has, as its keys in order, the names of the
\* columns of the method's RT default (the part before ':' of each pair), in
\* the order of the RT default.
C12_RowKeysAreColumns ==
  \A p \in Procs : \A j \in 1..Len(result[p]) :
     KeySeq(result[p][j]) = [i \in 1..Len(Columns(p)) |-> Columns(p)[i].name]

C12_Witness ==
  /\ pc[1] = "returned" /\ Len(result[1]) = 2
  /\ Columns(1) = <<ColF, ColE>>
  /\ KeySeq(result[1][2]) = << <<"f">>, <<"e">> >>

Min(a, b) == IF a < b THEN a ELSE b

\* C13: an entry whose payload has fewer fields than there are columns does
\* not make the drain fail: no IndexError is raised once the remote call was
\* issued, and the row built from the j-th visited entry holds as many pairs
\* as the smaller of the entry's field count and the column count.
C13_ShortPayloadTruncates ==
  \A p \in Procs :
     /\ (pc[p] = "raised" /\ err[p] = "IndexError") => issued[p] = <<>>
     /\ \A j \in 1..Len(result[p]) :
          Len(result[p][j])
            = Min(Len(reply[p].rows[visited[p][j]].fields), Len(return_cols[p]))

(* --------------------- claims on the metadata (Spec) -------------------- *)
\* C14: a dispatch on a method that has no metadata record leaves the output
\* global as it found it when it was called, and its first step ends it with
\* SchemaNotFound, no remote call issued and no row returned.
C14_SchemaNotFoundBeforeCall ==
  [][\A p \in Procs :
       /\ (pc'[p] = "entered" /\ pc[p] # "entered") => glo' = glo
       /\ (pc[p] = "entered" /\ ParameterDefinition[inp[p].method] = None)
            => /\ pc'[p] = "raised" /\ err'[p] = "SchemaNotFound"
               /\ issued'[p] = <<>> /\ result'[p] = <<>>
               /\ glo' = glo]_vars

C14_Witness ==
  /\ pc[1] = "raised" /\ err[1] = "SchemaNotFound" /\ inp[1].method = "NoSuch"
  /\ issued[1] = <<>> /\ result[1] = <<>>
  /\ prev[1].end = "raised" /\ prev[1].wrote = 2
  /\ Cardinality(DOMAIN glo[outGlo(1)]) = 2

(* ------------- two clients on two globals (SpecConc) -------------------- *)
\* the entries of one call, complete rows only
ConcRowSets ==
  { [k \in K |-> Full(k)] : K \in {S \in SUBSET Keys : Cardinality(S) <= MaxRows} }

ConcReplies == [fail : BOOLEAN, rows : ConcRowSets]

\* iknow_query(api, 'GetTop', 1, outGlo='^r2')
OtherCall == [method |-> "GetTop", domain_id |-> 1, args |-> <<>>,
              kwargs |-> <<<<outGloKey, Str(OtherGlo)>>>>]

\* two clients of one IRIS instance, each inside a call of iknow_query:
\* client 1 on the default global, client 2 on '^r2'
InitConc ==
  /\ ParameterDefinition = [m \in MethodNames |-> IF m = "GetTop" THEN Str(GetTopRT) ELSE None]
  /\ CompiledMethod = [m \in MethodNames |-> IF m = "GetTop" THEN Str(GetTopSpec) ELSE None]
  /\ rINC = IncludeFile
  /\ mac = MacIdle
  /\ InitIdle
  /\ \E r1 \in ConcReplies, r2 \in ConcReplies :
       reply = [p \in Procs |-> IF p = 1 THEN r1 ELSE r2]
  /\ ndisp = 2
  /\ pc = [p \in Procs |-> "entered"]
  /\ inp = [p \in Procs |-> IF p = 1 THEN IdleCall ELSE OtherCall]

\* the Native API calls of the two clients interleave in any order
NextConc == Step(1) \/ Step(2)

SpecConc == InitConc /\ [][NextConc]_vars

\* C15: of two concurrent dispatches on different globals, each one that
\* returns returns the rows of the entries its own remote call wrote, and the
\* global of each holds what its own dispatch made of it (the entries of its
\* own call from the call until the kill, nothing before and after), whatever
\* the other dispatch is doing.
C15_DistinctGlobalsIsolated ==
  \A p \in Procs :
     /\ outGlo(1) # outGlo(2)
     /\ pc[p] = "returned" => result[p] = RowsOf(reply[p].rows, return_cols[p])
     /\ glo[outGlo(p)] =
          IF pc[p] \in {"scan", "read", "kill"} \/ (pc[p] = "raised" /\ issued[p] # <<>>)
          THEN reply[p].rows ELSE EmptyGlobal

C15_Witness ==
  /\ pc[1] = "returned" /\ pc[2] = "returned"
  /\ visited[1] = <<1, 2>> /\ visited[2] = <<2>>
  /\ Len(result[1]) = 2 /\ Len(result[2]) = 1
  /\ result[2] = RowsOf(reply[2].rows, return_cols[2])

(* ------------- include files of any content (SpecMacro) ----------------- *)
\* lines of an include file as their space-separated fields: '#', '# M 5',
\* '# M  7' (two spaces, the third field is empty), '# Q'
MacroLines ==
  { << <<"#">> >>,
    << <<"#">>, <<"M">>, <<"5">> >>,
    << <<"#">>, <<"M">>, <<>>, <<"7">> >>,
    << <<"#">>, <<"Q">> >> }

\* ' '.join(fields)
RECURSIVE LineOf(_)
LineOf(fields) ==
  IF Len(fields) = 1 THEN fields[1]
  ELSE fields[1] \o <<" ">> \o LineOf(Tail(fields))

\* include files: any lines at any line numbers from 1 to MaxLine
MacroTables ==
  UNION { [K -> {LineOf(f) : f \in MacroLines}] : K \in SUBSET (1..MaxLine) }

MacroNames == { <<"M">>, <<"Q">>, <<"Z">> }

\* the argument of iknow_macro: a macro name with '$$$', or 'M' without
MacroArgs == {MacroPrefix \o n : n \in MacroNames} \cup { <<"M">> }

\* iknow_macro called on its own, for any include file and any macro
InitMacro ==
  /\ ParameterDefinition = [m \in MethodNames |-> IF m = "GetTop" THEN Str(GetTopRT) ELSE None]
  /\ CompiledMethod = [m \in MethodNames |-> IF m = "GetTop" THEN Str(GetTopSpec) ELSE None]
  /\ rINC \in MacroTables
  /\ \E a \in MacroArgs : mac = [MacIdle EXCEPT !.pc = "called", !.arg = a, !.macro = a]
  /\ reply = [p \in Procs |-> IdleReply]
  /\ InitIdle
  /\ ndisp = 0
  /\ pc = [p \in Procs |-> "idle"]
  /\ inp = [p \in Procs |-> IdleCall]

NextMacro == MacroEnter \/ MacroLoop \/ MacroReturn

\* the function runs on: a statement that can be executed is executed
SpecMacro == InitMacro /\ [][NextMacro]_vars /\ WF_vars(NextMacro)

\* the name the caller asked for, the lines that define it and the first of them
MacroName == CHOOSE n \in MacroNames : mac.arg \in {n, MacroPrefix \o n}
FieldsOf(line) == CHOOSE f \in MacroLines : LineOf(f) = line
MacroMatches ==
  {k \in DOMAIN rINC : Len(FieldsOf(rINC[k])) > 1 /\ FieldsOf(rINC[k])[2] = MacroName}
FirstMatch == FieldsOf(rINC[CHOOSE k \in MacroMatches : \A j \in MacroMatches : k <= j])
ThirdField ==
  IF MacroMatches = {} THEN None
  ELSE IF Len(FirstMatch) >= 3 THEN Str(FirstMatch[3]) ELSE None
FirstMatchHasNoValue == MacroMatches # {} /\ Len(FirstMatch) < 3

\* C16 as stated: iknow_macro always returns, and what it returns is the
\* third field of the first line, in ascending line order, whose second
\* field is the macro name without '$$$', or None when no line has it.
C16_ThirdFieldOfFirstMatch ==
  /\ [](mac.pc = "returned" => mac.value = ThirdField)
  /\ [](mac.pc # "raised")
  /\ <>(mac.pc = "returned")

\* C16 amended: iknow_macro always ends; when the first line whose second
\* field is the macro name has a third field it returns that field, when no
\* line has the name it returns None, and when that first line has only two
\* fields it raises IndexError instead of returning.
C16_ThirdFieldOrIndexError ==
  /\ [](mac.pc = "returned" => (mac.value = ThirdField /\ ~FirstMatchHasNoValue))
  /\ [](mac.pc = "raised" => (mac.err = "IndexError" /\ FirstMatchHasNoValue))
  /\ <>(mac.pc \in {"returned", "raised"})

C16_Witness ==
  /\ mac.pc = "returned" /\ mac.arg = MacroPrefix \o <<"M">>
  /\ rINC = (1 :> LineOf(<< <<"#">> >>))
              @@ (2 :> LineOf(<< <<"#">>, <<"M">>, <<"5">> >>))
              @@ (3 :> LineOf(<< <<"#">>, <<"M">>, <<>>, <<"7">> >>))
  /\ mac.value = Str(<<"5">>)

(* ------------------ claims on the remote call (SpecBind) ---------------- *)
\* the dispatch got past the remote call
Called(p) == pc[p] \in {"scan", "read", "kill", "returned"}

\* C17: a dispatch never issues more than one remote call, and one that gets
\* past the call has issued exactly one, on the method asked for, with the
\* global name, then the domain id, then one value per declaration after the
\* two leading ones, in the order of the declarations (the value at a
\* declaration's place is the caller's keyword for it, or else the positional
\* argument of its index), however many arguments the caller gave; and the
\* value of the keyword 'outGlo' is not bound even to a declaration of that name.
C17_OneCallDeclaredVector ==
  \A p \in Procs :
     /\ Len(issued[p]) <= 1
     /\ Called(p) =>
          /\ Len(issued[p]) = 1
          /\ issued[p][1].method = inp[p].method
          /\ LET a == issued[p][1].args
                 ds == Declared(p)
             IN  /\ Len(a) = 2 + Len(ds)
                 /\ a[1] = DictGet(inp[p].kwargs, outGloKey)
                 /\ a[2] = inp[p].domain_id
                 /\ \A i \in 1..Len(ds) :
                      /\ Matching(p, i) # {}
                           => \E j \in Matching(p, i) : a[2 + i] = inp[p].kwargs[j][2]
                      /\ (Matching(p, i) = {} /\ Len(inp[p].args) >= i)
                           => a[2 + i] = inp[p].args[i]
                      /\ Upper(ds[i].name) = Upper(outGloKey)
                           => a[2 + i] # DictGet(inp[p].kwargs, outGloKey)

C17_Witness ==
  /\ Called(1) /\ Len(issued[1]) = 1
  /\ Len(inp[1].args) = 3 /\ Len(Declared(1)) = 2
  /\ Declared(1)[2].name = outGloKey
  /\ DictGet(inp[1].kwargs, outGloKey) = Str(OtherGlo)
  /\ Matching(1, 1) # {}
  /\ issued[1][1].args = <<Str(OtherGlo), 1, Z, inp[1].args[2]>>

(* ------------------ claims on the subscripts (Spec) --------------------- *)
\* the subscripts the global holds
Held(p) == DOMAIN glo[outGlo(p)]

\* C18: when the scan has ended, the drain has visited every subscript the
\* global holds, subscript 0 included, and has one row for each of them.
C18_OneRowPerSubscript ==
  \A p \in Procs :
     pc[p] = "kill" =>
       /\ Len(result[p]) = Cardinality(Held(p))
       /\ {visited[p][j] : j \in 1..Len(visited[p])} = Held(p)

====
